---- MODULE Spec2Model ----
(***************************************************************************)
(* merge-core-phrases.py: reads eight fixed JSON files in list order,      *)
(* appends each parsed document to the list `merged`, writes `merged` as   *)
(* one JSON array to core-phrase-list-all.json and prints a summary line.  *)
(*                                                                         *)
(* The model follows the script statement by statement.  File contents    *)
(* are texts (strings); json.load and json.dump are modelled on a small    *)
(* set of representative texts by what CPython's json module does with     *)
(* them, including the texts it accepts beyond RFC 8259 and the value it   *)
(* cannot write with ensure_ascii=False.                                   *)
(***************************************************************************)
EXTENDS Naturals, Sequences, FiniteSets

VARIABLES
    inputs,   \* disk: file name -> text of the input file, or Absent
    output,   \* disk: the output file (see NoFile / Truncated below)
    pc,       \* position of the run in the script
    i,        \* 1-based position of the `for file in files` loop
    data,     \* the local `data`
    merged,   \* the list `merged`
    stdout,   \* lines printed by the run
    err,      \* the exception that ended the run, or "None"
    log,      \* history: files opened / parsed by the run, in order
    out0,     \* history: the output file as it was when the run started
    history   \* history: [status, output] of the runs already finished

vars == <<inputs, output, pc, i, data, merged, stdout, err, log, out0, history>>

-----------------------------------------------------------------------------
(* Bounds of the model *)

\* at most this many input files differ from the ordinary phrase list
MaxOdd == 2
\* the script is run at most this many times in succession
MaxRuns == 2

-----------------------------------------------------------------------------
(* The script's constants *)

files ==
    << "core-phrase-list-01-request.json",
       "core-phrase-list-02-reject.json",
       "core-phrase-list-03-direct.json",
       "core-phrase-list-04-accept.json",
       "core-phrase-list-05-interact.json",
       "core-phrase-list-06-express.json",
       "core-phrase-list-07-comment.json",
       "core-phrase-list-08-ask.json" >>

output_file == "core-phrase-list-all.json"

NumFiles == Len(files)

-----------------------------------------------------------------------------
(* Texts on disk *)

Absent == "<no such file>"

\* the ordinary content of an input file: a list of phrase strings
PhraseList == "[\"a\"]"

\* the other contents an input file is given in this model
OddTexts ==
    { "[]",                      \* the empty list
      "{\"k\": 1, \"k\": 2}",    \* an object, with a repeated key
      "1e999",                   \* a number beyond the range of a double
      "\"\\ud800\"",             \* a string holding an unpaired surrogate escape
      "NaN",                     \* not JSON, but read by json.load
      "[\"a\"," }                \* truncated text

\* RFC 8259: is the text a JSON text?  (Used to state the claims only.)
IsValidJSON(text) ==
    text \in { PhraseList, "[]", "{\"k\": 1, \"k\": 2}", "1e999", "\"\\ud800\"",
               "[\n    \"a\"\n  ]", "{\n    \"k\": 2\n  }" }

-----------------------------------------------------------------------------
(* json.load and json.dump *)

\* json.load(f) on a file holding `text`: the Python value, or the exception
json_load(text) ==
    CASE text = PhraseList               -> [ok |-> TRUE,  val |-> "['a']"]
      [] text = "[\n    \"a\"\n  ]"      -> [ok |-> TRUE,  val |-> "['a']"]
      [] text = "[]"                     -> [ok |-> TRUE,  val |-> "[]"]
      [] text = "{\"k\": 1, \"k\": 2}"   -> [ok |-> TRUE,  val |-> "{'k': 2}"]
      [] text = "{\n    \"k\": 2\n  }"   -> [ok |-> TRUE,  val |-> "{'k': 2}"]
      [] text = "1e999"                  -> [ok |-> TRUE,  val |-> "inf"]
      [] text = "Infinity"               -> [ok |-> TRUE,  val |-> "inf"]
      [] text = "NaN"                    -> [ok |-> TRUE,  val |-> "nan"]
      [] text = "\"\\ud800\""            -> [ok |-> TRUE,  val |-> "'\\ud800'"]
      [] OTHER                           -> [ok |-> FALSE, val |-> "JSONDecodeError"]

\* the text json.dump(..., ensure_ascii=False, indent=2) writes for one element
\* of the top-level list, or the exception the utf-8 file raises on writing it
json_dump_item(val) ==
    CASE val = "['a']"      -> [ok |-> TRUE,  text |-> "[\n    \"a\"\n  ]"]
      [] val = "[]"         -> [ok |-> TRUE,  text |-> "[]"]
      [] val = "{'k': 2}"   -> [ok |-> TRUE,  text |-> "{\n    \"k\": 2\n  }"]
      [] val = "inf"        -> [ok |-> TRUE,  text |-> "Infinity"]
      [] val = "nan"        -> [ok |-> TRUE,  text |-> "NaN"]
      [] OTHER              -> [ok |-> FALSE, text |-> "UnicodeEncodeError"]

\* number of leading elements of `list` that json.dump writes before it raises
RECURSIVE Written(_)
Written(list) ==
    IF list = <<>> \/ ~json_dump_item(Head(list)).ok
    THEN 0
    ELSE 1 + Written(Tail(list))

\* json.dump(list, f, ensure_ascii=False, indent=2): the element texts that
\* reach the file, and whether the closing bracket was written
json_dump(list) ==
    [ complete |-> Written(list) = Len(list),
      elems    |-> [k \in 1..Written(list) |-> json_dump_item(list[k]).text] ]

-----------------------------------------------------------------------------
(* The output file *)

\* a file holding the top-level array text: `elems` are the texts of the
\* elements written, `complete` tells whether the array was closed
NoFile == [exists |-> FALSE, complete |-> FALSE, elems |-> <<>>]

\* open(output_file, "w") creates the file or empties it
Truncated == [exists |-> TRUE, complete |-> FALSE, elems |-> <<>>]

\* an output file left by an earlier run over other inputs
OldOutput == [exists |-> TRUE, complete |-> TRUE, elems |-> <<"[]">>]

-----------------------------------------------------------------------------
(* Initial states *)

Positions == 1..NumFiles

FileNames == {files[n] : n \in Positions}

Init ==
    /\ \E odd \in SUBSET Positions :
         /\ Cardinality(odd) <= MaxOdd
         /\ \E g \in [odd -> OddTexts \cup {Absent}] :
              inputs = [name \in FileNames |->
                          LET n == CHOOSE n \in Positions : files[n] = name
                          IN  IF n \in odd THEN g[n] ELSE PhraseList]
    /\ output \in {NoFile, OldOutput}
    /\ pc = "open_in"
    /\ i = 1
    /\ data = "None"
    /\ merged = <<>>
    /\ stdout = <<>>
    /\ err = "None"
    /\ log = <<>>
    /\ out0 = output
    /\ history = <<>>

-----------------------------------------------------------------------------
(* The statements of the script *)

\* OpenIn with a missing file passed over instead of raising
OpenIn_skip ==
    /\ pc = "open_in"
    /\ log' = Append(log, [op |-> "open_r", file |-> files[i]])
    /\ IF inputs[files[i]] = Absent
       THEN /\ err' = err
            /\ IF i < NumFiles
               THEN /\ i' = i + 1
                    /\ pc' = "open_in"
               ELSE /\ i' = i
                    /\ pc' = "open_out"
       ELSE /\ pc' = "load"
            /\ err' = err
            /\ i' = i
    /\ UNCHANGED <<inputs, output, data, merged, stdout, out0, history>>

\* with open(file, "r", encoding="utf-8") as f:
OpenIn ==
    /\ pc = "open_in"
    /\ log' = Append(log, [op |-> "open_r", file |-> files[i]])
    /\ IF inputs[files[i]] = Absent
       THEN /\ pc' = "failed"
            /\ err' = "FileNotFoundError"
       ELSE /\ pc' = "load"
            /\ err' = err
    /\ UNCHANGED <<inputs, output, i, data, merged, stdout, out0, history>>

\* Load with a file that does not parse passed over instead of raising
Load_skip ==
    /\ pc = "load"
    /\ LET r == json_load(inputs[files[i]])
       IN  IF r.ok
           THEN /\ data' = r.val
                /\ log' = Append(log, [op |-> "parsed", file |-> files[i]])
                /\ pc' = "append"
                /\ i' = i
           ELSE /\ data' = data
                /\ log' = log
                /\ IF i < NumFiles
                   THEN /\ i' = i + 1
                        /\ pc' = "open_in"
                   ELSE /\ i' = i
                        /\ pc' = "open_out"
    /\ UNCHANGED <<inputs, output, merged, stdout, err, out0, history>>

\* data = json.load(f)
Load ==
    /\ pc = "load"
    /\ LET r == json_load(inputs[files[i]])
       IN  IF r.ok
           THEN /\ data' = r.val
                /\ log' = Append(log, [op |-> "parsed", file |-> files[i]])
                /\ pc' = "append"
                /\ err' = err
           ELSE /\ data' = data
                /\ log' = log
                /\ pc' = "failed"
                /\ err' = r.val
    /\ UNCHANGED <<inputs, output, i, merged, stdout, out0, history>>

\* AppendData with merged.insert(0, data) in place of merged.append(data)
AppendData_front ==
    /\ pc = "append"
    /\ merged' = <<data>> \o merged
    /\ IF i < NumFiles
       THEN /\ i' = i + 1
            /\ pc' = "open_in"
       ELSE /\ i' = i
            /\ pc' = "open_out"
    /\ UNCHANGED <<inputs, output, data, stdout, err, log, out0, history>>

\* merged.append(data), then the next file of the loop
AppendData ==
    /\ pc = "append"
    /\ merged' = Append(merged, data)
    /\ IF i < NumFiles
       THEN /\ i' = i + 1
            /\ pc' = "open_in"
       ELSE /\ i' = i
            /\ pc' = "open_out"
    /\ UNCHANGED <<inputs, output, data, stdout, err, log, out0, history>>

\* OpenOut with mode "a" in place of "w": an existing file keeps its content
OpenOut_append ==
    /\ pc = "open_out"
    /\ output' = IF output.exists THEN output ELSE Truncated
    /\ log' = Append(log, [op |-> "open_w", file |-> output_file])
    /\ pc' = "dump"
    /\ UNCHANGED <<inputs, i, data, merged, stdout, err, out0, history>>

\* with open(output_file, "w", encoding="utf-8") as f:
OpenOut ==
    /\ pc = "open_out"
    /\ output' = Truncated
    /\ log' = Append(log, [op |-> "open_w", file |-> output_file])
    /\ pc' = "dump"
    /\ UNCHANGED <<inputs, i, data, merged, stdout, err, out0, history>>

\* Dump with the exception of json.dump caught and the script going on
Dump_swallow ==
    /\ pc = "dump"
    /\ LET d == json_dump(merged)
       IN  output' = [exists   |-> TRUE,
                      complete |-> d.complete /\ output.elems = <<>>,
                      elems    |-> output.elems \o d.elems]
    /\ pc' = "print"
    /\ UNCHANGED <<inputs, i, data, merged, stdout, err, log, out0, history>>

\* json.dump(merged, f, ensure_ascii=False, indent=2), and the end of the
\* with-block, which flushes what was written and closes the file
Dump ==
    /\ pc = "dump"
    /\ LET d == json_dump(merged)
       IN  /\ output' = [exists   |-> TRUE,
                         complete |-> d.complete /\ output.elems = <<>>,
                         elems    |-> output.elems \o d.elems]
           /\ IF d.complete
              THEN /\ pc' = "print"
                   /\ err' = err
              ELSE /\ pc' = "failed"
                   /\ err' = "UnicodeEncodeError"
    /\ UNCHANGED <<inputs, i, data, merged, stdout, log, out0, history>>

\* print(f"Merged {len(files)} JSON files into {output_file}")
PrintSummary ==
    /\ pc = "print"
    /\ stdout' = Append(stdout, [n |-> Len(files), path |-> output_file])
    /\ pc' = "done"
    /\ UNCHANGED <<inputs, output, i, data, merged, err, log, out0, history>>

\* the script is started again, over the same directory
Rerun ==
    /\ pc \in {"done", "failed"}
    /\ Len(history) + 1 < MaxRuns
    /\ history' = Append(history, [status |-> pc, output |-> output])
    /\ out0' = output
    /\ pc' = "open_in"
    /\ i' = 1
    /\ data' = "None"
    /\ merged' = <<>>
    /\ stdout' = <<>>
    /\ err' = "None"
    /\ log' = <<>>
    /\ UNCHANGED <<inputs, output>>

Next ==
    \/ OpenIn
    \/ Load
    \/ AppendData
    \/ OpenOut
    \/ Dump
    \/ PrintSummary
    \/ Rerun

Spec == Init /\ [][Next]_vars

TypeOK ==
    /\ pc \in {"open_in", "load", "append", "open_out", "dump", "print", "done", "failed"}
    /\ i \in Positions
    /\ Len(merged) <= NumFiles
    /\ Len(stdout) <= 1
    /\ Len(history) < MaxRuns

-----------------------------------------------------------------------------
(* Vocabulary of the properties *)

Terminal == pc \in {"done", "failed"}

AllPresent == \A name \in FileNames : inputs[name] # Absent

SomeAbsent == \E name \in FileNames : inputs[name] = Absent

AllValidJSON == \A name \in FileNames : inputs[name] # Absent /\ IsValidJSON(inputs[name])

SomeInvalidJSON == \E name \in FileNames : inputs[name] # Absent /\ ~IsValidJSON(inputs[name])

\* the parsed document of the n-th file of the list
Document(n) == json_load(inputs[files[n]]).val

\* the run is past the loop: the output file has been opened for writing
OutputOpened == pc \in {"dump", "print", "done"} \/ (pc = "failed" /\ err = "UnicodeEncodeError")

\* number of files read, parsed and appended so far by the run
Processed == IF pc \in {"open_in", "load", "append"} \/ (pc = "failed" /\ ~OutputOpened)
             THEN i - 1
             ELSE NumFiles

OpenedForRead == SelectSeq(log, LAMBDA e : e.op = "open_r")

Parsed == SelectSeq(log, LAMBDA e : e.op = "parsed")

OpenedForWrite == SelectSeq(log, LAMBDA e : e.op = "open_w")

-----------------------------------------------------------------------------
(* C1 *)

\* C1: with all eight input files holding valid JSON, a run that completes
\* leaves an output file whose content is a JSON array of exactly 8 elements,
\* element n being equal to the parsed content of the n-th file of the list.
C1_OutputIsJSONArrayOfInputs ==
    (pc = "done" /\ AllValidJSON) =>
        /\ output.exists /\ output.complete
        /\ Len(output.elems) = NumFiles
        /\ \A n \in Positions :
             /\ IsValidJSON(output.elems[n])
             /\ json_load(output.elems[n]).ok
             /\ json_load(output.elems[n]).val = Document(n)

-----------------------------------------------------------------------------
(* C2 *)

\* C2: if an input file is absent, at whatever position, then in every state
\* of the run the output file is as it was when the run started (not created,
\* or holding its prior content), the run never gets to writing or printing,
\* and the run cannot end in success.
C2_AbsentInputLeavesOutput ==
    SomeAbsent =>
        /\ output = out0
        /\ pc \notin {"open_out", "dump", "print", "done"}
        /\ stdout = <<>>

\* a run over a directory with an existing output file has failed on a missing
\* input file that is not the first of the list
C2_Witness ==
    /\ pc = "failed" /\ err = "FileNotFoundError"
    /\ i > 1 /\ inputs[files[i]] = Absent
    /\ out0 = OldOutput /\ output = OldOutput

-----------------------------------------------------------------------------
(* C3 *)

\* C3: if an input file holds text that is not valid JSON, at whatever
\* position, the run ends in failure and the output file is unaffected: the
\* run never gets to open the output file and never ends in success.
C3_InvalidJSONFails ==
    SomeInvalidJSON =>
        /\ output = out0
        /\ pc \notin {"open_out", "dump", "print", "done"}

-----------------------------------------------------------------------------
(* C4 *)

\* C4: a run that follows another run over unchanged input files ends as the
\* earlier one did, with the output file holding exactly the content the
\* earlier run left.
C4_Idempotent ==
    (Terminal /\ history # <<>>) =>
        /\ output = history[Len(history)].output
        /\ pc = history[Len(history)].status

\* a second successful run has ended, the first having replaced an older file
C4_Witness ==
    /\ pc = "done" /\ history # <<>>
    /\ history[1].status = "done"
    /\ history[1].output # OldOutput
    /\ output.complete

-----------------------------------------------------------------------------
(* C5 *)

\* C5: whatever valid JSON values the eight files hold, each document becomes
\* one element of the output at its position (a list is not flattened, the
\* empty list is not left out), so the run ends with an output of 8 elements.
C5_AnyValidJSONOneElementEach ==
    (Terminal /\ AllValidJSON) =>
        /\ pc = "done"
        /\ output.complete
        /\ Len(output.elems) = NumFiles
        /\ \A n \in Positions : json_load(output.elems[n]).val = Document(n)

-----------------------------------------------------------------------------
(* C6 *)

\* C6: the completion message is printed exactly once by a successful run,
\* after the output file has been written, and tells the number of elements
\* of the written array (8) and the output path; in every other state of a
\* run, the failed ones included, nothing has been printed.
C6_SummaryOnceAfterWrite ==
    /\ pc = "done" =>
         /\ Len(stdout) = 1
         /\ output.exists /\ output.complete
         /\ stdout[1].n = Len(output.elems)
         /\ stdout[1].n = NumFiles
         /\ stdout[1].path = output_file
    /\ pc # "done" => stdout = <<>>

\* a successful run has printed its line
C6_Witness ==
    /\ pc = "done"
    /\ stdout = <<[n |-> NumFiles, path |-> output_file]>>
    /\ output.complete

-----------------------------------------------------------------------------
(* C7 *)

-----------------------------------------------------------------------------
(* C8 *)

\* C8: a run ends either in success (all 8 inputs parsed, output written,
\* summary printed) or in an abort on a missing or unparsable input file with
\* nothing written and nothing printed.
C8_TwoFinalStates ==
    Terminal =>
        \/ /\ pc = "done"
           /\ Len(merged) = NumFiles
           /\ output.exists /\ output.complete /\ Len(output.elems) = NumFiles
           /\ Len(stdout) = 1
        \/ /\ pc = "failed"
           /\ err \in {"FileNotFoundError", "JSONDecodeError"}
           /\ output = out0
           /\ stdout = <<>>

-----------------------------------------------------------------------------
(* C9 *)

\* C9: in every state of a run the accumulator holds exactly the parsed
\* documents of the first k files of the list, in list order, k being the
\* number of files processed so far, and it holds 8 documents whenever the
\* output file is opened or written; a step of a run leaves the accumulator
\* as it is or appends one element to it, and only a new run empties it.
C9_AccumulatorIsPrefix ==
    /\ [](/\ Len(merged) = Processed
          /\ \A k \in 1..Len(merged) : merged[k] = Document(k)
          /\ (pc = "open_out" \/ OutputOpened) => Len(merged) = NumFiles)
    /\ [][ \/ merged' = merged
           \/ /\ Len(merged') = Len(merged) + 1
              /\ SubSeq(merged', 1, Len(merged)) = merged
           \/ /\ Terminal
              /\ pc' = "open_in"
              /\ merged' = <<>> ]_vars

\* the accumulator holds the first five documents, an unusual one among them
C9_Witness ==
    /\ pc = "open_in" /\ i = 6
    /\ Len(merged) = 5
    /\ \E k \in 1..5 : merged[k] # "['a']"

-----------------------------------------------------------------------------
(* C10 *)

\* C10: no step of a run changes an input file, and the output file differs
\* from what it was at the start of the run only in a run that succeeds.
C10_Frame ==
    [][ /\ inputs' = inputs
        /\ pc' = "failed" => output' = out0' ]_vars

====
